---- MODULE Spec2Model ----
(***************************************************************************)
(* The sudoku solver service: the SudokuSolver engine                      *)
(* (src/controllers/sudoku-solver.js) and the two POST routes that expose  *)
(* it (src/unnamed/part_001, the /api/check and /api/solve handlers).      *)
(*                                                                         *)
(* JavaScript values are modelled as sequences.  A string is the sequence  *)
(* of its characters (each a one-character TLA+ string); the values        *)
(* undefined and false are one-element sequences holding a marker that is  *)
(* no character, so they differ from every string and can be compared      *)
(* with one.  Source indices are 0-based; sequences here are 1-based, so   *)
(* grid[r][c] of the source is grid[r + 1][c + 1].                         *)
(***************************************************************************)
EXTENDS Integers, Sequences, FiniteSets, TLC

VARIABLES
  op,          \* what is being served: "none", the route "check" or "solve",
               \* or the solver method a caller invoked directly
  puzzle,      \* req.body.puzzle, or the puzzleString argument
  coordinate,  \* req.body.coordinate, or the row and column arguments
  value,       \* req.body.value, or the value argument
  res,         \* the JSON body passed to res.json, or the object validate
               \* returned to a direct caller; NoResponse before
  calls,       \* the solver methods the handler has invoked, in order
  pc,          \* control point of the request being served
  grid,        \* solve's working grid (const grid / currentGrid)
  stack,       \* the active solveGrid calls' frames: row, col, num
  placed,      \* how many digits the search has written into the grid
  ret,         \* the string or boolean solve or a placement check
               \* returned, Undefined before
  last         \* history: an earlier finished call, its arguments and result

vars ==
  <<op, puzzle, coordinate, value, res, calls, pc, grid, stack, placed, ret,
    last>>

----------------------------------------------------------------------------
(* JavaScript values *)

Undefined == <<"undefined">>
False == <<"false">>
True == <<"true">>
Bool(b) == IF b THEN True ELSE False
EmptyCell == <<".">>

Digits == <<"1", "2", "3", "4", "5", "6", "7", "8", "9">>
UpperCase == <<"A", "B", "C", "D", "E", "F", "G", "H", "I", "J", "K", "L">>
LowerCase == <<"a", "b", "c", "d", "e", "f", "g", "h", "i", "j", "k", "l">>

Range(s) == {s[i] : i \in 1..Len(s)}
DigitSet == Range(Digits)
UpperSet == Range(UpperCase)
LowerSet == Range(LowerCase)

\* The row letters A-I.
RowSet == {UpperCase[i] : i \in 1..9}
IndexOf(s, x) == CHOOSE i \in 1..Len(s) : s[i] = x

\* !x for a string or undefined: undefined and "" are falsy.
Falsy(x) == x = Undefined \/ x = <<>>

\* String.prototype.charCodeAt for one character (ASCII).
CharCode(ch) ==
  IF ch \in UpperSet THEN 64 + IndexOf(UpperCase, ch)
  ELSE IF ch \in LowerSet THEN 96 + IndexOf(LowerCase, ch)
  ELSE IF ch \in DigitSet THEN 48 + IndexOf(Digits, ch)
  ELSE IF ch = "0" THEN 48
  ELSE IF ch = "." THEN 46
  ELSE 45

\* String.fromCharCode(n), a one-character string, for the codes of A..L.
FromCharCode(n) == <<UpperCase[n - 64]>>

\* String.prototype.toUpperCase, character by character.
ToUpperChar(ch) ==
  IF ch \in LowerSet THEN UpperCase[IndexOf(LowerCase, ch)] ELSE ch
ToUpperCase(s) == [i \in 1..Len(s) |-> ToUpperChar(s[i])]

\* parseInt(s, 10) of a string of decimal digits.
RECURSIVE parseInt(_)
parseInt(s) ==
  IF Len(s) = 0 THEN 0
  ELSE 10 * parseInt(SubSeq(s, 1, Len(s) - 1))
       + (IF s[Len(s)] = "0" THEN 0 ELSE IndexOf(Digits, s[Len(s)]))

\* (n).toString() for n in 1..9.
NumToString(n) == <<Digits[n]>>

\* s[i]: the one-character string at 0-based index i, undefined past the end.
CharAt(s, i) == IF i < Len(s) THEN <<s[i + 1]>> ELSE Undefined

\* s.slice(from, to) and s.slice(from) on a string.
Slice(s, from, to) ==
  SubSeq(s, from + 1, IF to < Len(s) THEN to ELSE Len(s))

----------------------------------------------------------------------------
(* SudokuSolver: validate, letterToNumber, stringToGrid *)

ErrMissing == "Required field missing"
ErrChars == "Invalid characters in puzzle"
ErrLength == "Expected puzzle to be 81 characters long"

\* /[^1-9.]/.test(s)
ValidChars == DigitSet \cup {"."}
HasInvalidChar(s) == \E i \in 1..Len(s) : s[i] \notin ValidChars

\* validate with the length compared before the characters are tested.
validate_LengthFirst(puzzleString) ==
  IF Falsy(puzzleString) THEN [valid |-> FALSE, error |-> ErrMissing]
  ELSE IF Len(puzzleString) # 81 THEN [valid |-> FALSE, error |-> ErrLength]
  ELSE IF HasInvalidChar(puzzleString) THEN [valid |-> FALSE, error |-> ErrChars]
  ELSE [valid |-> TRUE]

validate(puzzleString) ==
  IF Falsy(puzzleString) THEN [valid |-> FALSE, error |-> ErrMissing]
  ELSE IF HasInvalidChar(puzzleString) THEN [valid |-> FALSE, error |-> ErrChars]
  ELSE IF Len(puzzleString) # 81 THEN [valid |-> FALSE, error |-> ErrLength]
  ELSE [valid |-> TRUE]

letterToNumber(row) == CharCode(ToUpperCase(row)[1]) - CharCode("A")

stringToGrid(puzzleString) ==
  [r \in 1..9 |-> [c \in 1..9 |-> CharAt(puzzleString, (r - 1) * 9 + (c - 1))]]

\* grid.flat().join(""): the cells in row-major order, each a string of
\* one character; undefined elements join as the empty string.
FlatJoin(g) ==
  LET cells == [k \in 1..81 |-> g[((k - 1) \div 9) + 1][((k - 1) % 9) + 1]]
      strings == SelectSeq(cells, LAMBDA cell : cell # Undefined)
  IN [i \in 1..Len(strings) |-> strings[i][1]]

----------------------------------------------------------------------------
(* SudokuSolver: the three placement checks *)

\* The loop of checkRowPlacement from index i on.
RECURSIVE RowLoop(_, _, _, _, _)
RowLoop(g, rowIndex, colIndex, val, i) ==
  IF i >= 9 THEN TRUE
  ELSE IF i = colIndex
    THEN IF g[rowIndex + 1][i + 1] # EmptyCell /\ g[rowIndex + 1][i + 1] # val
         THEN FALSE
         ELSE RowLoop(g, rowIndex, colIndex, val, i + 1)
    ELSE IF g[rowIndex + 1][i + 1] = val
         THEN FALSE
         ELSE RowLoop(g, rowIndex, colIndex, val, i + 1)

\* The earlier draft of checkRowPlacement (src/unnamed/part_000): any cell
\* of the row holding the value is a conflict, the target cell included.
checkRowPlacement_Draft(puzzleString, row, column, val) ==
  LET g == stringToGrid(puzzleString)
      rowIndex == letterToNumber(row)
  IN ~\E c \in 0..8 : g[rowIndex + 1][c + 1] = val

checkRowPlacement(puzzleString, row, column, val) ==
  LET g == stringToGrid(puzzleString)
      rowIndex == letterToNumber(row)
      colIndex == parseInt(column) - 1
  IN RowLoop(g, rowIndex, colIndex, val, 0)

\* The loop of checkColPlacement from index i on.
RECURSIVE ColLoop(_, _, _, _, _)
ColLoop(g, rowIndex, colIndex, val, i) ==
  IF i >= 9 THEN TRUE
  ELSE IF i = rowIndex
    THEN IF g[i + 1][colIndex + 1] # EmptyCell /\ g[i + 1][colIndex + 1] # val
         THEN FALSE
         ELSE ColLoop(g, rowIndex, colIndex, val, i + 1)
    ELSE IF g[i + 1][colIndex + 1] = val
         THEN FALSE
         ELSE ColLoop(g, rowIndex, colIndex, val, i + 1)

\* The earlier draft of checkColPlacement (src/unnamed/part_000).
checkColPlacement_Draft(puzzleString, row, column, val) ==
  LET g == stringToGrid(puzzleString)
      colIndex == parseInt(column) - 1
  IN ~\E r \in 0..8 : g[r + 1][colIndex + 1] = val

checkColPlacement(puzzleString, row, column, val) ==
  LET g == stringToGrid(puzzleString)
      rowIndex == letterToNumber(row)
      colIndex == parseInt(column) - 1
  IN ColLoop(g, rowIndex, colIndex, val, 0)

\* Math.floor(i / 3) * 3
RegionStart(i) == (i \div 3) * 3

\* The nested loops of checkRegionPlacement; k counts the cells of the
\* region in the order visited: r = startRow + k div 3, c = startCol + k mod 3.
RECURSIVE RegionLoop(_, _, _, _, _)
RegionLoop(g, rowIndex, colIndex, val, k) ==
  IF k >= 9 THEN TRUE
  ELSE LET r == RegionStart(rowIndex) + (k \div 3)
           c == RegionStart(colIndex) + (k % 3)
       IN IF r = rowIndex /\ c = colIndex
            THEN IF g[r + 1][c + 1] # EmptyCell /\ g[r + 1][c + 1] # val
                 THEN FALSE
                 ELSE RegionLoop(g, rowIndex, colIndex, val, k + 1)
            ELSE IF g[r + 1][c + 1] = val
                 THEN FALSE
                 ELSE RegionLoop(g, rowIndex, colIndex, val, k + 1)

\* The earlier draft of checkRegionPlacement (src/unnamed/part_000).
checkRegionPlacement_Draft(puzzleString, row, column, val) ==
  LET g == stringToGrid(puzzleString)
      startRow == RegionStart(letterToNumber(row))
      startCol == RegionStart(parseInt(column) - 1)
  IN ~\E r \in startRow..(startRow + 2), c \in startCol..(startCol + 2) :
        g[r + 1][c + 1] = val

checkRegionPlacement(puzzleString, row, column, val) ==
  LET g == stringToGrid(puzzleString)
      rowIndex == letterToNumber(row)
      colIndex == parseInt(column) - 1
  IN RegionLoop(g, rowIndex, colIndex, val, 0)

----------------------------------------------------------------------------
(* SudokuSolver.solve: pre-validation of the givens, then the search *)

\* The iteration with the column check left out.
GivenRejected_NoColumn(g, k) ==
  LET r == k \div 9
      c == k % 9
  IN /\ g[r + 1][c + 1] # EmptyCell
     /\ LET val == g[r + 1][c + 1]
            str == FlatJoin([g EXCEPT ![r + 1][c + 1] = EmptyCell])
            rowS == FromCharCode(65 + r)
            colS == NumToString(c + 1)
        IN \/ ~checkRowPlacement(str, rowS, colS, val)
           \/ ~checkRegionPlacement(str, rowS, colS, val)

\* One iteration of the nested loops of lines 227-271, at cell k = 9 * r + c:
\* a given is emptied, checked against the rest by the three placement
\* checks, and restored.  TRUE when the iteration returns false.
GivenRejected(g, k) ==
  LET r == k \div 9
      c == k % 9
  IN /\ g[r + 1][c + 1] # EmptyCell
     /\ LET val == g[r + 1][c + 1]
            str == FlatJoin([g EXCEPT ![r + 1][c + 1] = EmptyCell])
            rowS == FromCharCode(65 + r)
            colS == NumToString(c + 1)
        IN \/ ~checkRowPlacement(str, rowS, colS, val)
           \/ ~checkColPlacement(str, rowS, colS, val)
           \/ ~checkRegionPlacement(str, rowS, colS, val)

\* solve without the loops of lines 227-271: the grid goes to the search as
\* it is.
PreValidation_Skipped(g) == [ok |-> TRUE, grid |-> g]

\* The loops of lines 227-271.  Every passing iteration leaves the grid as it
\* found it, so the loops stop at the first cell in row-major order whose
\* iteration returns false, with that cell still emptied.
PreValidation(g) ==
  LET rejected == {k \in 0..80 : GivenRejected(g, k)}
  IN IF rejected = {} THEN [ok |-> TRUE, grid |-> g]
     ELSE LET k == CHOOSE m \in rejected : \A n \in rejected : m <= n
          IN [ok |-> FALSE,
              grid |-> [g EXCEPT ![(k \div 9) + 1][(k % 9) + 1] = EmptyCell]]

Null == <<"null">>

\* findEmpty: the first empty cell in row-major order as <<r, c>>, or null.
findEmpty(g) ==
  LET empties == {k \in 0..80 : g[(k \div 9) + 1][(k % 9) + 1] = EmptyCell}
  IN IF empties = {} THEN Null
     ELSE LET k == CHOOSE m \in empties : \A n \in empties : m <= n
          IN <<k \div 9, k % 9>>

\* isValidPlacement with the scan of the column left out.
isValidPlacement_NoColumn(g, row, col, num) ==
  /\ ~\E x \in 0..8 : g[row + 1][x + 1] = num
  /\ LET startRow == RegionStart(row)
         startCol == RegionStart(col)
     IN ~\E i \in 0..2, j \in 0..2 : g[i + startRow + 1][j + startCol + 1] = num

isValidPlacement(g, row, col, num) ==
  /\ ~\E x \in 0..8 : g[row + 1][x + 1] = num
  /\ ~\E x \in 0..8 : g[x + 1][col + 1] = num
  /\ LET startRow == RegionStart(row)
         startCol == RegionStart(col)
     IN ~\E i \in 0..2, j \in 0..2 : g[i + startRow + 1][j + startCol + 1] = num

----------------------------------------------------------------------------
(* The routes of src/unnamed/part_001 *)

ErrFields == "Required field(s) missing"
ErrCoordinate == "Invalid coordinate"
ErrValue == "Invalid value"
ErrUnsolvable == "Puzzle cannot be solved"

NoResponse == [pending |-> TRUE]

\* The pattern without its i flag: /^[A-I][1-9]$/.test(s)
CoordinateRegex_CaseSensitive(s) ==
  /\ Len(s) = 2
  /\ s[1] \in RowSet
  /\ s[2] \in DigitSet

\* /^[A-I][1-9]$/i.test(s)
CoordinateRegex(s) ==
  /\ Len(s) = 2
  /\ ToUpperChar(s[1]) \in RowSet
  /\ s[2] \in DigitSet

\* /^[1-9]$/.test(s)
ValueRegex(s) == Len(s) = 1 /\ s[1] \in DigitSet

\* The three pushes with "column" pushed before "row".
Conflicts_ColumnFirst(isRowValid, isColValid, isRegionValid) ==
  (IF ~isColValid THEN <<"column">> ELSE <<>>)
  \o (IF ~isRowValid THEN <<"row">> ELSE <<>>)
  \o (IF ~isRegionValid THEN <<"region">> ELSE <<>>)

\* conflicts after the three pushes of lines 59-63.
Conflicts(isRowValid, isColValid, isRegionValid) ==
  (IF ~isRowValid THEN <<"row">> ELSE <<>>)
  \o (IF ~isColValid THEN <<"column">> ELSE <<>>)
  \o (IF ~isRegionValid THEN <<"region">> ELSE <<>>)

PlacementCalls == <<"checkRowPlacement", "checkColPlacement", "checkRegionPlacement">>

\* The handler with the value pattern tested before the coordinate pattern.
CheckHandler_ValueFirst(p, coord, v) ==
  IF Falsy(p) \/ Falsy(coord) \/ Falsy(v)
  THEN [res |-> [error |-> ErrFields], calls |-> <<>>]
  ELSE LET puzzleValidation == validate(p)
       IN IF ~puzzleValidation.valid
          THEN [res |-> [error |-> puzzleValidation.error], calls |-> <<"validate">>]
          ELSE IF ~ValueRegex(v)
          THEN [res |-> [error |-> ErrValue], calls |-> <<"validate">>]
          ELSE IF ~CoordinateRegex(coord)
          THEN [res |-> [error |-> ErrCoordinate], calls |-> <<"validate">>]
          ELSE LET row == Slice(coord, 0, 1)
                   column == Slice(coord, 1, Len(coord))
                   conflicts == Conflicts(checkRowPlacement(p, row, column, v),
                                          checkColPlacement(p, row, column, v),
                                          checkRegionPlacement(p, row, column, v))
               IN [res |-> IF Len(conflicts) > 0
                           THEN [valid |-> FALSE, conflict |-> conflicts]
                           ELSE [valid |-> TRUE],
                   calls |-> <<"validate">> \o PlacementCalls]

\* The POST /api/check handler: the response and the solver methods called.
CheckHandler(p, coord, v) ==
  IF Falsy(p) \/ Falsy(coord) \/ Falsy(v)
  THEN [res |-> [error |-> ErrFields], calls |-> <<>>]
  ELSE LET puzzleValidation == validate(p)
       IN IF ~puzzleValidation.valid
          THEN [res |-> [error |-> puzzleValidation.error], calls |-> <<"validate">>]
          ELSE IF ~CoordinateRegex(coord)
          THEN [res |-> [error |-> ErrCoordinate], calls |-> <<"validate">>]
          ELSE IF ~ValueRegex(v)
          THEN [res |-> [error |-> ErrValue], calls |-> <<"validate">>]
          ELSE LET row == Slice(coord, 0, 1)
                   column == Slice(coord, 1, Len(coord))
                   conflicts == Conflicts(checkRowPlacement(p, row, column, v),
                                          checkColPlacement(p, row, column, v),
                                          checkRegionPlacement(p, row, column, v))
               IN [res |-> IF Len(conflicts) > 0
                           THEN [valid |-> FALSE, conflict |-> conflicts]
                           ELSE [valid |-> TRUE],
                   calls |-> <<"validate">> \o PlacementCalls]

----------------------------------------------------------------------------
(* The requests the clients send *)

\* puzzlesAndSolutions[0] of the test suites: puzzle and solution.
FixturePuzzle ==
  << "1", ".", "5", ".", ".", "2", ".", "8", "4",
     ".", ".", "6", "3", ".", "1", "2", ".", "7",
     ".", "2", ".", ".", "5", ".", ".", ".", ".",
     ".", "9", ".", ".", "1", ".", ".", ".", ".",
     "8", ".", "2", ".", "3", "6", "7", "4", ".",
     "3", ".", "7", ".", "2", ".", ".", "9", ".",
     "4", "7", ".", ".", ".", "8", ".", ".", "1",
     ".", ".", "1", "6", ".", ".", ".", ".", "9",
     "2", "6", "9", "1", "4", ".", "3", "7", "." >>

FixtureSolution ==
  << "1", "3", "5", "7", "6", "2", "9", "8", "4",
     "9", "4", "6", "3", "8", "1", "2", "5", "7",
     "7", "2", "8", "4", "5", "9", "6", "1", "3",
     "6", "9", "4", "5", "1", "7", "8", "3", "2",
     "8", "1", "2", "9", "3", "6", "7", "4", "5",
     "3", "5", "7", "8", "2", "4", "1", "9", "6",
     "4", "7", "3", "2", "9", "8", "5", "6", "1",
     "5", "8", "1", "6", "7", "3", "4", "2", "9",
     "2", "6", "9", "1", "4", "5", "3", "7", "8" >>

\* The bases are FixtureSolution with a set of cells emptied: none; the two
\* 5s at A3 and H1 (with A1 and H3, the two 1s of the same rectangle,
\* emptied as well, the puzzle has two completions); the 5s at A3 and C5;
\* the 5 at H1 alone (a 5 at H3 then repeats only the 5 of column 3).
PreBlanks == {{}, {3, 64}, {3, 23}, {64}}
Base(blanks) == [i \in 1..81 |-> IF i \in blanks THEN "." ELSE FixtureSolution[i]]

\* The valid puzzles are a base with its first MaxWin window cells each
\* kept, emptied, or overwritten with AltDigit (no window cell holds it).
MaxWin == 3
Window == <<1, 21, 66, 2, 41>>
AltDigit == "5"
EditOptions == {"keep", "blank", "alter"}

Edited(base, w) ==
  [i \in 1..81 |->
     IF \E j \in 1..MaxWin : Window[j] = i
     THEN LET j == CHOOSE j \in 1..MaxWin : Window[j] = i
          IN IF w[j] = "blank" THEN "."
             ELSE IF w[j] = "alter" THEN AltDigit
             ELSE base[i]
     ELSE base[i]]

ValidPuzzles ==
  {FixturePuzzle}
  \cup {Edited(Base(b), w) : b \in PreBlanks, w \in [1..MaxWin -> EditOptions]}

\* Malformed puzzles: absent, empty, one character short or long, or with a
\* character outside 1-9 and "." at the place of the "g" in the functional
\* tests' invalid puzzle.
CorruptAt == 26
Truncate(s) == SubSeq(s, 1, Len(s) - 1)
Extend(s) == Append(s, ".")
Corrupt(s, ch) == [s EXCEPT ![CorruptAt] = ch]
MalformSeeds ==
  {FixturePuzzle, Edited(FixtureSolution, [j \in 1..MaxWin |-> "alter"])}

MalformedPuzzles ==
  {Undefined, <<>>}
  \cup {Truncate(s) : s \in MalformSeeds}
  \cup {Extend(s) : s \in MalformSeeds}
  \cup {Corrupt(s, ch) : s \in MalformSeeds, ch \in {"g", "0"}}
  \cup {Truncate(Corrupt(s, ch)) : s \in MalformSeeds, ch \in {"g", "0"}}

PuzzleInputs == ValidPuzzles \cup MalformedPuzzles

\* The invalid puzzle of the unit tests: the first 71 characters of the
\* fixture puzzle and a "-".
TestInvalidPuzzle == Append(SubSeq(FixturePuzzle, 1, 71), "-")

\* Complete grids: the fixture solution with the digits 1 and 2 exchanged,
\* which is as legal as the fixture solution, and the fixture solution with
\* the cells A1 and A2 exchanged, which keeps every row and region and
\* breaks columns 1 and 2.
Relabelled ==
  [i \in 1..81 |-> IF FixtureSolution[i] = "1" THEN "2"
                   ELSE IF FixtureSolution[i] = "2" THEN "1"
                   ELSE FixtureSolution[i]]
CellsExchanged ==
  [FixtureSolution EXCEPT ![1] = FixtureSolution[2], ![2] = FixtureSolution[1]]
CompleteGrids ==
  {Edited(FixtureSolution, w) : w \in [1..MaxWin -> {"keep", "alter"}]}
  \cup {Relabelled, CellsExchanged}

\* solve is called directly with the fixture puzzle, puzzles with a few
\* empty cells, complete grids, and strings validate rejects for their
\* characters: of 81 characters with one of them wrong, and the test's.
DirectSolveInputs ==
  {FixturePuzzle, TestInvalidPuzzle}
  \cup {Edited(Base({3, 64}), w) : w \in [1..MaxWin -> {"keep", "blank"}]}
  \cup CompleteGrids
  \cup {Corrupt(s, ch) : s \in MalformSeeds \cup {FixtureSolution},
                         ch \in {"g", "0"}}

\* /api/check is sent the fixture puzzle, a complete grid and the malformed
\* puzzles, with every coordinate and value below.
PlacementPuzzleInputs == {FixturePuzzle, FixtureSolution}
CheckPuzzleInputs == PlacementPuzzleInputs \cup MalformedPuzzles

RowLetters == {UpperCase[i] : i \in 1..9} \cup {LowerCase[i] : i \in 1..9}

CoordinateInputs ==
  {<<l, d>> : l \in RowLetters, d \in DigitSet}
  \cup {<<"L", "2">>, <<"A", "0">>, <<"A">>, <<"A", "1", "0">>, <<"1", "A">>,
        <<>>, Undefined}

ValueInputs ==
  {<<d>> : d \in DigitSet}
  \cup {<<"0">>, <<"1", "0">>, <<"a">>, <<>>, Undefined}

\* No call is remembered.
NoCall == [op |-> "none"]

\* Once a call is remembered the requests that follow are drawn from a few
\* inputs, enough to repeat the remembered call with other calls in between:
\* a complete grid with A1 altered, a puzzle with A1 and H3 emptied on top of
\* A3 and H1, the fixture solution, a puzzle one character short.
RepeatPuzzles ==
  {Edited(FixtureSolution, [j \in 1..MaxWin |-> IF j = 1 THEN "alter" ELSE "keep"]),
   Edited(Base({3, 64}), [j \in 1..MaxWin |-> IF j = 2 THEN "keep" ELSE "blank"]),
   FixtureSolution,
   Truncate(FixturePuzzle)}
RepeatCoordinates == {<<"A", "1">>, <<"a", "1">>, <<"E", "5">>}
RepeatValues == {<<"1">>, <<"5">>}
RepeatRows == {"A", "E"}
RepeatDigits == {"1", "5"}

\* The inputs a request is drawn from: all of them, or the few.
Requested(all, few) == IF last = NoCall THEN all ELSE all \cap few

----------------------------------------------------------------------------
(* The state machine *)

Init ==
  /\ op = "none"
  /\ puzzle = Undefined
  /\ coordinate = Undefined
  /\ value = Undefined
  /\ res = NoResponse
  /\ calls = <<>>
  /\ pc = "idle"
  /\ grid = <<>>
  /\ stack = <<>>
  /\ placed = 0
  /\ ret = Undefined
  /\ last = NoCall

\* POST /api/check: the whole handler, lines 8-69.
PostCheck ==
  /\ pc = "idle"
  /\ \E p \in Requested(CheckPuzzleInputs, RepeatPuzzles),
        coord \in Requested(CoordinateInputs, RepeatCoordinates),
        v \in Requested(ValueInputs, RepeatValues) :
       LET handled == CheckHandler(p, coord, v)
       IN /\ puzzle' = p
          /\ coordinate' = coord
          /\ value' = v
          /\ res' = handled.res
          /\ calls' = handled.calls
  /\ op' = "check"
  /\ pc' = "done"
  /\ UNCHANGED <<last, grid, stack, placed, ret>>

\* A direct call of solver.validate, as the unit tests make.  The object it
\* returns is kept in res, with the other objects: ret holds the strings
\* and booleans the other methods return.
DirectValidate ==
  /\ pc = "idle"
  /\ \E p \in Requested(PuzzleInputs, RepeatPuzzles) :
       /\ puzzle' = p
       /\ res' = validate(p)
  /\ op' = "validate"
  /\ calls' = <<"validate">>
  /\ pc' = "done"
  /\ UNCHANGED <<last, coordinate, value, ret, grid, stack, placed>>

\* Direct calls of the three placement checks, as the unit tests make.
DirectCheckRow ==
  /\ pc = "idle"
  /\ \E p \in Requested(PlacementPuzzleInputs, RepeatPuzzles),
        row \in Requested(RowSet, RepeatRows),
        column \in Requested(DigitSet, RepeatDigits),
        v \in Requested(DigitSet, RepeatDigits) :
       /\ puzzle' = p
       /\ coordinate' = <<row, column>>
       /\ value' = <<v>>
       /\ ret' = Bool(checkRowPlacement(p, <<row>>, <<column>>, <<v>>))
  /\ op' = "checkRowPlacement"
  /\ calls' = <<"checkRowPlacement">>
  /\ pc' = "done"
  /\ UNCHANGED <<last, res, grid, stack, placed>>

DirectCheckCol ==
  /\ pc = "idle"
  /\ \E p \in Requested(PlacementPuzzleInputs, RepeatPuzzles),
        row \in Requested(RowSet, RepeatRows),
        column \in Requested(DigitSet, RepeatDigits),
        v \in Requested(DigitSet, RepeatDigits) :
       /\ puzzle' = p
       /\ coordinate' = <<row, column>>
       /\ value' = <<v>>
       /\ ret' = Bool(checkColPlacement(p, <<row>>, <<column>>, <<v>>))
  /\ op' = "checkColPlacement"
  /\ calls' = <<"checkColPlacement">>
  /\ pc' = "done"
  /\ UNCHANGED <<last, res, grid, stack, placed>>

DirectCheckRegion ==
  /\ pc = "idle"
  /\ \E p \in Requested(PlacementPuzzleInputs, RepeatPuzzles),
        row \in Requested(RowSet, RepeatRows),
        column \in Requested(DigitSet, RepeatDigits),
        v \in Requested(DigitSet, RepeatDigits) :
       /\ puzzle' = p
       /\ coordinate' = <<row, column>>
       /\ value' = <<v>>
       /\ ret' = Bool(checkRegionPlacement(p, <<row>>, <<column>>, <<v>>))
  /\ op' = "checkRegionPlacement"
  /\ calls' = <<"checkRegionPlacement">>
  /\ pc' = "done"
  /\ UNCHANGED <<last, res, grid, stack, placed>>

\* POST /api/solve with the result of validate ignored: every puzzle
\* reaches solve, which answers false for one it cannot read.
PostSolve_NoValidate ==
  /\ pc = "idle"
  /\ op' = "solve"
  /\ \E p \in Requested(PuzzleInputs, RepeatPuzzles) :
       /\ puzzle' = p
       /\ IF ~validate(p).valid
          THEN /\ res' = [error |-> ErrUnsolvable]
               /\ calls' = <<"validate", "solve">>
               /\ pc' = "done"
               /\ grid' = grid
          ELSE /\ res' = NoResponse
               /\ calls' = <<"validate", "solve">>
               /\ pc' = "prevalidate"
               /\ grid' = stringToGrid(p)
  /\ UNCHANGED <<last, coordinate, value, stack, placed, ret>>

\* POST /api/solve with the grid kept on the solver from one call to the
\* next: line 223 builds it only when none is there.
PostSolve_ReusesGrid ==
  /\ pc = "idle"
  /\ op' = "solve"
  /\ \E p \in Requested(PuzzleInputs, RepeatPuzzles) :
       /\ puzzle' = p
       /\ LET puzzleValidation == validate(p)
          IN IF ~puzzleValidation.valid
             THEN /\ res' = [error |-> puzzleValidation.error]
                  /\ calls' = <<"validate">>
                  /\ pc' = "done"
                  /\ grid' = grid
             ELSE /\ res' = NoResponse
                  /\ calls' = <<"validate", "solve">>
                  /\ pc' = "prevalidate"
                  /\ grid' = IF grid # <<>> THEN grid ELSE stringToGrid(p)
  /\ UNCHANGED <<last, coordinate, value, stack, placed, ret>>

\* POST /api/solve up to the call of solver.solve, lines 71-82, and the
\* first statement of solve, line 223.
PostSolve ==
  /\ pc = "idle"
  /\ op' = "solve"
  /\ \E p \in Requested(PuzzleInputs, RepeatPuzzles) :
       /\ puzzle' = p
       /\ LET puzzleValidation == validate(p)
          IN IF ~puzzleValidation.valid
             THEN /\ res' = [error |-> puzzleValidation.error]
                  /\ calls' = <<"validate">>
                  /\ pc' = "done"
                  /\ grid' = grid
             ELSE /\ res' = NoResponse
                  /\ calls' = <<"validate", "solve">>
                  /\ pc' = "prevalidate"
                  /\ grid' = stringToGrid(p)
  /\ UNCHANGED <<last, coordinate, value, stack, placed, ret>>

\* A direct call of solver.solve, as the unit tests make: no validate runs
\* before it.  Line 223 builds the grid.
DirectSolve ==
  /\ pc = "idle"
  /\ op' = "directSolve"
  /\ \E p \in Requested(DirectSolveInputs, RepeatPuzzles) :
       /\ puzzle' = p
       /\ grid' = stringToGrid(p)
  /\ calls' = <<"solve">>
  /\ pc' = "prevalidate"
  /\ UNCHANGED <<last, coordinate, value, res, stack, placed, ret>>

\* solve, lines 227-271: the pre-validation of the givens.  When it passes,
\* line 331 calls solveGrid(grid).
PreValidate ==
  /\ pc = "prevalidate"
  /\ LET pv == PreValidation(grid)
     IN /\ grid' = pv.grid
        /\ IF pv.ok
           THEN pc' = "call" /\ ret' = ret
           ELSE pc' = "returned" /\ ret' = False
  /\ UNCHANGED <<last, op, puzzle, coordinate, value, res, calls, stack, placed>>

\* Entry of solveGrid, lines 274-280.  With no empty cell the call returns
\* the grid, and so does every caller (line 287) down to line 337.
SolveGridCall ==
  /\ pc = "call"
  /\ LET find == findEmpty(grid)
     IN IF find = Null
        THEN /\ stack' = <<>>
             /\ ret' = FlatJoin(grid)
             /\ pc' = "returned"
        ELSE /\ stack' = Append(stack, [row |-> find[1], col |-> find[2], num |-> 1])
             /\ ret' = ret
             /\ pc' = "loop"
  /\ UNCHANGED <<last, op, puzzle, coordinate, value, res, calls, grid, placed>>

Top == stack[Len(stack)]

\* Lines 283-286: num is legal, so it is written and solveGrid recurses.
PlaceNum ==
  /\ pc = "loop"
  /\ Top.num <= 9
  /\ isValidPlacement(grid, Top.row, Top.col, NumToString(Top.num))
  /\ grid' = [grid EXCEPT ![Top.row + 1][Top.col + 1] = NumToString(Top.num)]
  /\ placed' = placed + 1
  /\ pc' = "call"
  /\ UNCHANGED <<last, op, puzzle, coordinate, value, res, calls, stack, ret>>

\* The loop of line 282 without its num++: an illegal num is tried again.
SkipNum_Stuck ==
  /\ pc = "loop"
  /\ Top.num <= 9
  /\ ~isValidPlacement(grid, Top.row, Top.col, NumToString(Top.num))
  /\ UNCHANGED <<last, op, puzzle, coordinate, value, res, calls, pc, grid,
                 stack, placed, ret>>

\* Lines 282-283: num is not legal; the loop goes on to num + 1.
SkipNum ==
  /\ pc = "loop"
  /\ Top.num <= 9
  /\ ~isValidPlacement(grid, Top.row, Top.col, NumToString(Top.num))
  /\ stack' = [stack EXCEPT ![Len(stack)].num = @ + 1]
  /\ UNCHANGED <<last, op, puzzle, coordinate, value, res, calls, pc, grid, placed, ret>>

\* The return of false without line 290: the caller goes on to its next num
\* with the digit of the failed branch still in its cell.
ReturnFalse_NoReset ==
  /\ pc = "loop"
  /\ Top.num > 9
  /\ IF Len(stack) = 1
     THEN /\ stack' = <<>>
          /\ ret' = False
          /\ pc' = "returned"
     ELSE /\ stack' = [SubSeq(stack, 1, Len(stack) - 1)
                         EXCEPT ![Len(stack) - 1].num = @ + 1]
          /\ ret' = ret
          /\ pc' = "loop"
  /\ UNCHANGED <<last, op, puzzle, coordinate, value, res, calls, grid, placed>>

\* Line 294: the loop is exhausted and the call returns false.  The caller
\* resets its cell (line 290) and goes on to its next num; the outermost
\* call makes solve return false (lines 333-335).
ReturnFalse ==
  /\ pc = "loop"
  /\ Top.num > 9
  /\ IF Len(stack) = 1
     THEN /\ stack' = <<>>
          /\ ret' = False
          /\ pc' = "returned"
          /\ grid' = grid
     ELSE LET caller == stack[Len(stack) - 1]
          IN /\ stack' = [SubSeq(stack, 1, Len(stack) - 1)
                            EXCEPT ![Len(stack) - 1].num = @ + 1]
             /\ grid' = [grid EXCEPT ![caller.row + 1][caller.col + 1] = EmptyCell]
             /\ ret' = ret
             /\ pc' = "loop"
  /\ UNCHANGED <<last, op, puzzle, coordinate, value, res, calls, placed>>

\* POST /api/solve after solver.solve returned, lines 84-88.
RespondSolve ==
  /\ op = "solve"
  /\ pc = "returned"
  /\ res' = IF ret = False THEN [error |-> ErrUnsolvable] ELSE [solution |-> ret]
  /\ pc' = "done"
  /\ UNCHANGED <<last, op, puzzle, coordinate, value, calls, grid, stack, placed, ret>>

\* A direct call of solve has returned to its caller, lines 333-337.
DirectSolveReturn ==
  /\ op = "directSolve"
  /\ pc = "returned"
  /\ pc' = "done"
  /\ UNCHANGED <<last, op, puzzle, coordinate, value, res, calls, grid, stack, placed, ret>>

\* The handler has returned; the server waits for the next request.  Nothing
\* of the request outlives it: solve's grid and frames are locals.  The
\* grid of a finished solve is garbage no code refers to; while a call is
\* remembered the model leaves it where it is, so that a later call reading
\* it would show in that call's result.
HandlerReturn ==
  /\ pc = "done"
  /\ op' = "none"
  /\ puzzle' = Undefined
  /\ coordinate' = Undefined
  /\ value' = Undefined
  /\ res' = NoResponse
  /\ calls' = <<>>
  /\ pc' = "idle"
  /\ grid' = IF last = NoCall THEN <<>> ELSE grid
  /\ stack' = <<>>
  /\ placed' = 0
  /\ ret' = Undefined
  /\ last' = last

\* The handler has returned and the call is remembered, with its arguments
\* and its result, for comparison with the calls that follow.
Remember ==
  /\ pc = "done"
  /\ last = NoCall
  /\ puzzle \in RepeatPuzzles
  /\ coordinate \in RepeatCoordinates \cup {Undefined}
  /\ value \in RepeatValues \cup {Undefined}
  /\ last' = [op |-> op, puzzle |-> puzzle, coordinate |-> coordinate,
              value |-> value, res |-> res, ret |-> ret]
  /\ op' = "none"
  /\ puzzle' = Undefined
  /\ coordinate' = Undefined
  /\ value' = Undefined
  /\ res' = NoResponse
  /\ calls' = <<>>
  /\ pc' = "idle"
  /\ stack' = <<>>
  /\ placed' = 0
  /\ ret' = Undefined
  /\ UNCHANGED grid

Next ==
  \/ PostCheck
  \/ PostSolve
  \/ DirectValidate
  \/ DirectCheckRow
  \/ DirectCheckCol
  \/ DirectCheckRegion
  \/ DirectSolve
  \/ PreValidate
  \/ SolveGridCall
  \/ PlaceNum
  \/ SkipNum
  \/ ReturnFalse
  \/ RespondSolve
  \/ DirectSolveReturn
  \/ HandlerReturn
  \/ Remember

Spec == Init /\ [][Next]_vars

\* solve runs synchronously: once called, its next step is taken.
SearchStep ==
  \/ SolveGridCall
  \/ PlaceNum
  \/ SkipNum
  \/ ReturnFalse

SolveStep == PreValidate \/ SearchStep

\* Every step of the search changes its control point, its grid or its
\* frames.
solveVars == <<pc, grid, stack>>

\* The pre-validation is one step, possible whenever solve is at it, and
\* it leaves for the search or for the return.
PreValidateLeaves == pc = "prevalidate" /\ pc' \in {"call", "returned"}

\* The calls of solve alone, through the route and direct, one after the
\* other on the shared solver.
SolveNext ==
  \/ PostSolve
  \/ DirectSolve
  \/ SolveStep
  \/ RespondSolve
  \/ DirectSolveReturn
  \/ HandlerReturn

FairSpec ==
  /\ Init
  /\ [][SolveNext]_vars
  /\ WF_pc(PreValidateLeaves)
  /\ WF_solveVars(SearchStep)

----------------------------------------------------------------------------
(* Sudoku, stated on puzzle strings, for the properties below *)

\* A string of 81 characters over 1-9 and ".": what validate accepts.
IsPuzzleString(s) ==
  /\ s # Undefined
  /\ Len(s) = 81
  /\ \A i \in 1..81 : s[i] \in DigitSet \cup {"."}

\* Positions 1..81 in row-major order: row and column indices 0..8.
RowOf(i) == (i - 1) \div 9
ColOf(i) == (i - 1) % 9
PosOf(r, c) == 9 * r + c + 1

SameRow(i, j) == RowOf(i) = RowOf(j)
SameCol(i, j) == ColOf(i) = ColOf(j)
SameRegion(i, j) ==
  /\ RowOf(i) \div 3 = RowOf(j) \div 3
  /\ ColOf(i) \div 3 = ColOf(j) \div 3

\* The 27 units: 9 rows, 9 columns, 9 regions.
Units ==
  {{i \in 1..81 : RowOf(i) = u} : u \in 0..8}
  \cup {{i \in 1..81 : ColOf(i) = u} : u \in 0..8}
  \cup {{i \in 1..81 : RowOf(i) \div 3 = a /\ ColOf(i) \div 3 = b} :
          a \in 0..2, b \in 0..2}

\* The 20 other cells sharing a unit with cell i.
Peers ==
  [i \in 1..81 |->
     {j \in 1..81 : j # i /\ (SameRow(i, j) \/ SameCol(i, j) \/ SameRegion(i, j))}]

\* A full grid with every digit exactly once in each unit.
IsSolvedGrid(s) ==
  /\ s # Undefined
  /\ Len(s) = 81
  /\ \A i \in 1..81 : s[i] \in DigitSet
  /\ \A u \in Units : {s[i] : i \in u} = DigitSet

IsCompletionOf(s, p) ==
  /\ IsSolvedGrid(s)
  /\ \A i \in 1..81 : p[i] # "." => s[i] = p[i]

Empties(p) == {i \in 1..81 : p[i] = "."}

\* Two givens sharing a unit hold the same digit.
HasDuplicateGivens(p) ==
  \E i \in 1..81 : p[i] # "." /\ \E j \in Peers[i] : p[j] = p[i]

\* Some assignment of digits to the empty cells leaves no digit twice in a
\* unit: every candidate assignment is tried.
HasCompletion(p) ==
  /\ ~HasDuplicateGivens(p)
  /\ \E f \in [Empties(p) -> DigitSet] :
       \A e \in Empties(p) :
         \A j \in Peers[e] : (IF p[j] = "." THEN f[j] ELSE p[j]) # f[e]

----------------------------------------------------------------------------
(* Properties *)

\* C1: for a puzzle string that passes validate, solve returns a string
\* exactly when the givens admit a legal completion and false otherwise; the
\* string returned is a full grid with every digit once in each row, column
\* and region that agrees with the input at every given.
C1_SolveReturnsACompletion ==
  (op = "solve" /\ pc \in {"returned", "done"} /\ IsPuzzleString(puzzle))
    => IF ret = False
       THEN ~HasCompletion(puzzle)
       ELSE IsCompletionOf(ret, puzzle)

\* solve found a completion after it had to undo a digit it had written.
C1_Witness ==
  /\ op = "solve"
  /\ pc = "done"
  /\ IsPuzzleString(puzzle)
  /\ ret # False
  /\ placed > Cardinality(Empties(puzzle))
  /\ res = [solution |-> ret]

\* solve returned false from the search, after writing and undoing digits,
\* with no two givens in conflict.
C1_ReachesExhaustedSearch ==
  /\ op = "solve"
  /\ pc = "done"
  /\ IsPuzzleString(puzzle)
  /\ ~HasDuplicateGivens(puzzle)
  /\ ret = False
  /\ placed > 0
  /\ res = [error |-> ErrUnsolvable]

\* C2: validate reports one outcome with fixed precedence: an absent or
\* empty input is 'Required field missing'; otherwise a character outside
\* 1-9 and '.' is 'Invalid characters in puzzle' whatever the length;
\* otherwise a length other than 81 is 'Expected puzzle to be 81 characters
\* long'; otherwise {valid: true}.
C2_ValidatePrecedence ==
  (op = "validate" /\ pc = "done")
    => res = IF puzzle \in {Undefined, <<>>}
             THEN [valid |-> FALSE, error |-> "Required field missing"]
             ELSE IF \E i \in 1..Len(puzzle) : puzzle[i] \notin DigitSet \cup {"."}
             THEN [valid |-> FALSE, error |-> "Invalid characters in puzzle"]
             ELSE IF Len(puzzle) # 81
             THEN [valid |-> FALSE,
                   error |-> "Expected puzzle to be 81 characters long"]
             ELSE [valid |-> TRUE]

\* validate was given a string of the wrong length that holds an invalid
\* character, and reported the character.
C2_Witness ==
  /\ op = "validate"
  /\ pc = "done"
  /\ puzzle # Undefined
  /\ Len(puzzle) = 80
  /\ "g" \in Range(puzzle)
  /\ res = [valid |-> FALSE, error |-> "Invalid characters in puzzle"]

\* The coordinates and values the patterns of /api/check accept.
IsCoordinate(s) ==
  s \in {<<l, d>> : l \in RowSet \cup {LowerCase[i] : i \in 1..9}, d \in DigitSet}
IsValue(s) == s \in {<<d>> : d \in DigitSet}

\* The shape error of a present puzzle: the characters before the length.
ShapeError(p) ==
  IF \E i \in 1..Len(p) : p[i] \notin DigitSet \cup {"."}
  THEN "Invalid characters in puzzle"
  ELSE IF Len(p) # 81 THEN "Expected puzzle to be 81 characters long"
  ELSE "none"

PlacementChecksRan == Range(calls) \cap Range(PlacementCalls) # {}

\* C3: POST /api/check reports the first failing check in the order missing
\* field(s), puzzle validation (characters, then length), coordinate format,
\* value format, placement conflicts; a missing or empty puzzle yields
\* 'Required field(s) missing', never 'Required field missing'; the placement
\* checks run only when the four earlier checks pass.
C3_CheckPrecedence ==
  (op = "check" /\ pc = "done")
    => /\ IF \E x \in {puzzle, coordinate, value} : x \in {Undefined, <<>>}
          THEN res = [error |-> "Required field(s) missing"]
          ELSE IF ShapeError(puzzle) # "none"
          THEN res = [error |-> ShapeError(puzzle)]
          ELSE IF ~IsCoordinate(coordinate)
          THEN res = [error |-> "Invalid coordinate"]
          ELSE IF ~IsValue(value)
          THEN res = [error |-> "Invalid value"]
          ELSE DOMAIN res \in {{"valid"}, {"valid", "conflict"}}
       /\ res # [error |-> "Required field missing"]
       /\ PlacementChecksRan <=> "valid" \in DOMAIN res

\* A request whose puzzle has an invalid character and the wrong length and
\* whose coordinate and value are both malformed got the character error.
C3_Witness ==
  /\ op = "check"
  /\ pc = "done"
  /\ ~Falsy(puzzle) /\ ~Falsy(coordinate) /\ ~Falsy(value)
  /\ Len(puzzle) # 81
  /\ \E i \in 1..Len(puzzle) : puzzle[i] \notin DigitSet \cup {"."}
  /\ ~IsCoordinate(coordinate)
  /\ ~IsValue(value)
  /\ res = [error |-> "Invalid characters in puzzle"]
  /\ ~PlacementChecksRan

\* The cell a coordinate names: the letter's place in A-I (or a-i) is the
\* row, the digit's place in 1-9 the column.
RowIndexOf(l) ==
  IF l \in UpperSet THEN IndexOf(UpperCase, l) - 1 ELSE IndexOf(LowerCase, l) - 1
TargetPos == PosOf(RowIndexOf(coordinate[1]), IndexOf(Digits, coordinate[2]) - 1)

\* The value of the request occupies a cell other than the target cell in
\* the target's row, column, region.
ElsewhereInRow ==
  \E j \in 1..81 : j # TargetPos /\ SameRow(j, TargetPos) /\ puzzle[j] = value[1]
ElsewhereInCol ==
  \E j \in 1..81 : j # TargetPos /\ SameCol(j, TargetPos) /\ puzzle[j] = value[1]
ElsewhereInRegion ==
  \E j \in 1..81 : j # TargetPos /\ SameRegion(j, TargetPos) /\ puzzle[j] = value[1]

\* The target cell holds a digit that is not the value of the request.
TargetHoldsOtherDigit == puzzle[TargetPos] \notin {".", value[1]}

C6_RegionExcludeSelf ==
  (op = "checkRegionPlacement" /\ pc = "done")
    => (ret = False <=> ElsewhereInRegion)

\* C6, amended: checkRegionPlacement returns false if and only if the value
\* occupies a cell of that box other than the target cell or the target
\* cell holds a digit other than the value; cells outside the box do not
\* affect the result.
C6_RegionPlacement ==
  (op = "checkRegionPlacement" /\ pc = "done")
    => /\ ret \in {True, False}
       /\ ret = False <=> (ElsewhereInRegion \/ TargetHoldsOtherDigit)

\* The region check rejected a value found nowhere else in the box, because
\* the target cell holds another digit.
C6_Witness ==
  /\ op = "checkRegionPlacement"
  /\ pc = "done"
  /\ TargetHoldsOtherDigit
  /\ ~ElsewhereInRegion
  /\ ret = False

\* A /api/check request that passes the field, puzzle, coordinate and value
\* checks.
WellFormedCheck ==
  /\ op = "check"
  /\ pc = "done"
  /\ IsPuzzleString(puzzle)
  /\ coordinate # Undefined /\ IsCoordinate(coordinate)
  /\ value # Undefined /\ IsValue(value)

\* The axes whose placement check fails for the request, in the order row,
\* column, region.
FailingAxes ==
  LET row == <<coordinate[1]>>
      column == <<coordinate[2]>>
      fails(axis) ==
        IF axis = "row" THEN ~checkRowPlacement(puzzle, row, column, value)
        ELSE IF axis = "column" THEN ~checkColPlacement(puzzle, row, column, value)
        ELSE ~checkRegionPlacement(puzzle, row, column, value)
  IN SelectSeq(<<"row", "column", "region">>, fails)

\* C7: a /api/check request that passes the four earlier checks is answered
\* {valid: true}, with no conflict key, exactly when no placement check
\* fails; otherwise {valid: false, conflict: L} with L the failing axes, each
\* once, in the order row, column, region.
C7_ConflictList ==
  WellFormedCheck
    => res = IF FailingAxes = <<>>
             THEN [valid |-> TRUE]
             ELSE [valid |-> FALSE, conflict |-> FailingAxes]

\* A request answered with two axes, the first of the three skipped.
C7_Witness ==
  /\ WellFormedCheck
  /\ res = [valid |-> FALSE, conflict |-> <<"column", "region">>]

\* C8: when the cell at the coordinate already holds the value, /api/check
\* responds {valid: false} with a conflict list that includes row and column.
C8_PlacedDigitConflicts ==
  (WellFormedCheck /\ puzzle[TargetPos] = value[1])
    => /\ DOMAIN res = {"valid", "conflict"}
       /\ res.valid = FALSE
       /\ {"row", "column"} \subseteq Range(res.conflict)

\* C9: for a valid 81-character puzzle in which two givens of one row,
\* column or region hold the same digit, solve returns false in the
\* pre-validation pass, before the search places any digit or opens any
\* frame, and POST /api/solve responds {error: 'Puzzle cannot be solved'}.
C9_DuplicateGivensRejected ==
  (op = "solve" /\ IsPuzzleString(puzzle) /\ HasDuplicateGivens(puzzle)
     /\ pc # "prevalidate")
    => /\ pc \in {"returned", "done"}
       /\ ret = False
       /\ placed = 0
       /\ stack = <<>>
       /\ pc = "done" => res = [error |-> "Puzzle cannot be solved"]

\* The only duplicate of the puzzle is within a column (no row and no
\* region holds a digit twice), cells are left to fill, and the request was
\* answered without a placement.
C9_Witness ==
  /\ op = "solve"
  /\ pc = "done"
  /\ IsPuzzleString(puzzle)
  /\ HasDuplicateGivens(puzzle)
  /\ ~\E i, j \in 1..81 :
        i # j /\ puzzle[i] # "." /\ puzzle[i] = puzzle[j]
        /\ (SameRow(i, j) \/ SameRegion(i, j))
  /\ Empties(puzzle) # {}
  /\ placed = 0
  /\ res = [error |-> "Puzzle cannot be solved"]

C11_InvalidCharactersFailSolve ==
  (op = "directSolve" /\ pc = "done"
     /\ \E i \in 1..Len(puzzle) : puzzle[i] \notin DigitSet \cup {"."})
    => ret = False

\* C12: solve returns a complete grid (81 characters, no ".") unchanged when
\* every row, column and region holds each digit once, and returns false,
\* not the input, when the grid breaks a row, column or region rule.
C12_CompleteGridRoundTrip ==
  (op \in {"solve", "directSolve"} /\ pc = "done"
     /\ IsPuzzleString(puzzle) /\ Empties(puzzle) = {})
    => /\ placed = 0
       /\ ret = IF IsSolvedGrid(puzzle) THEN puzzle ELSE False

\* A legal complete grid other than the fixture solution came back as it
\* went in.
C12_Witness ==
  /\ op = "directSolve"
  /\ pc = "done"
  /\ IsSolvedGrid(puzzle)
  /\ puzzle # FixtureSolution
  /\ ret = puzzle

\* A complete grid with every row and region in order and a column broken
\* was answered with false.
C12_ReachesBrokenGrid ==
  /\ op = "directSolve"
  /\ pc = "done"
  /\ IsPuzzleString(puzzle)
  /\ Empties(puzzle) = {}
  /\ \A i, j \in 1..81 :
       (i # j /\ puzzle[i] = puzzle[j]) => ~(SameRow(i, j) \/ SameRegion(i, j))
  /\ ~IsSolvedGrid(puzzle)
  /\ ret = False

\* A /api/check request that passes the field, puzzle and value checks and
\* names its row with a lower-case letter a-i.
LowerCaseCheck ==
  /\ WellFormedCheck
  /\ coordinate[1] \in {LowerCase[i] : i \in 1..9}

\* The coordinate of the request with its row letter in upper case.
UpperCaseCoordinate ==
  <<UpperCase[IndexOf(LowerCase, coordinate[1])], coordinate[2]>>

\* C13: a /api/check request with a lower-case row letter a-i is accepted
\* as a coordinate and gets the response of the request with the upper-case
\* letter: both letters name the same row index 0-8, and the answer is that
\* of the cell in that row.
C13_CaseInsensitiveCoordinate ==
  LowerCaseCheck
    => /\ res # [error |-> "Invalid coordinate"]
       /\ letterToNumber(<<coordinate[1]>>) = IndexOf(LowerCase, coordinate[1]) - 1
       /\ letterToNumber(<<coordinate[1]>>) = letterToNumber(<<UpperCaseCoordinate[1]>>)
       /\ res = CheckHandler(puzzle, UpperCaseCoordinate, value).res
       /\ "valid" \in DOMAIN res
       /\ res.valid <=> ~(ElsewhereInRow \/ ElsewhereInCol \/ ElsewhereInRegion
                           \/ TargetHoldsOtherDigit)

\* A request naming row e-i in lower case was answered with a conflict.
C13_Witness ==
  /\ LowerCaseCheck
  /\ IndexOf(LowerCase, coordinate[1]) > 4
  /\ DOMAIN res = {"valid", "conflict"}
  /\ res.valid = FALSE

\* The call being served has the method and the arguments of the
\* remembered call.
RepeatsLast ==
  /\ last # NoCall
  /\ op = last.op
  /\ puzzle = last.puzzle
  /\ coordinate = last.coordinate
  /\ value = last.value

\* C14: the solver is stateless across calls.  While a call is served its
\* arguments stay as they were passed, and a call that repeats an earlier
\* call, whatever was called in between and whatever grid that left behind,
\* ends with the result of the earlier call.
C14_StatelessAcrossCalls ==
  [][/\ (pc # "idle" /\ pc' # "idle")
          => (op' = op /\ puzzle' = puzzle /\ coordinate' = coordinate
              /\ value' = value)
     /\ (pc' = "done" /\ RepeatsLast')
          => (res' = last'.res /\ ret' = last'.ret)]_vars

\* A solve request that repeats the remembered one went through solve and
\* was answered, as before, that the puzzle cannot be solved.
C14_Witness ==
  /\ RepeatsLast
  /\ op = "solve"
  /\ pc = "done"
  /\ "solve" \in Range(calls)
  /\ res = last.res
  /\ res = [error |-> "Puzzle cannot be solved"]

\* solve is running on a valid puzzle string.
SolvingValidPuzzle ==
  /\ op \in {"solve", "directSolve"}
  /\ pc \in {"prevalidate", "call", "loop"}
  /\ IsPuzzleString(puzzle)

\* The solveGrid calls that are active: the frames, and the call being
\* entered.
Depth == IF pc = "call" THEN Len(stack) + 1 ELSE Len(stack)

EmptyCells(g) == {k \in 0..80 : g[(k \div 9) + 1][(k % 9) + 1] = EmptyCell}

\* solve has returned, a solved string or false.
SolveReturned ==
  IF pc = "returned" THEN ret = False \/ IsSolvedGrid(ret) ELSE FALSE

\* C15: on every valid puzzle solve terminates, returning a solved string or
\* false; the nesting depth of solveGrid never exceeds the number of empty
\* cells of the input plus one (at most 82), each call being entered with
\* one more cell filled than its caller.
C15_SolveTerminates ==
  /\ [](SolvingValidPuzzle
          => /\ Depth <= Cardinality(Empties(puzzle)) + 1
             /\ Depth <= 82
             /\ pc = "call"
                  => Cardinality(EmptyCells(grid))
                       = Cardinality(Empties(puzzle)) - Len(stack))
  /\ SolvingValidPuzzle ~> SolveReturned

\* The search on the fixture puzzle is entering its deepest call: one frame
\* for each of more than forty empty cells, and no cell left to fill.
C15_Witness ==
  /\ SolvingValidPuzzle
  /\ pc = "call"
  /\ Len(stack) = Cardinality(Empties(puzzle))
  /\ Len(stack) > 40
  /\ EmptyCells(grid) = {}

\* The search of solve is running on a valid puzzle string.
SearchRunning ==
  /\ op \in {"solve", "directSolve"}
  /\ pc \in {"call", "loop"}
  /\ IsPuzzleString(puzzle)

\* The cell of the working grid at position i of the puzzle string.
GridAt(i) == grid[RowOf(i) + 1][ColOf(i) + 1]

\* The frames whose digit is in the grid: all of them when a call is being
\* entered, the callers of the innermost call when that call is in its loop.
PlacedFrames == IF pc = "call" THEN 1..Len(stack) ELSE 1..(Len(stack) - 1)

\* The grid as it was when the innermost call was entered: the givens, and
\* for each of its callers the digit that caller has in its cell.
EntryGrid ==
  [r \in 1..9 |-> [c \in 1..9 |->
     IF puzzle[PosOf(r - 1, c - 1)] # "."
     THEN <<puzzle[PosOf(r - 1, c - 1)]>>
     ELSE IF \E f \in PlacedFrames : stack[f].row = r - 1 /\ stack[f].col = c - 1
     THEN LET f == CHOOSE f \in PlacedFrames :
                     stack[f].row = r - 1 /\ stack[f].col = c - 1
          IN <<Digits[stack[f].num]>>
     ELSE <<".">>]]

\* C16: once pre-validation has passed, in every state of the search no
\* digit occurs twice in a row, column or region of the working grid, every
\* given holds its digit, the filled cells that were empty are a row-major
\* prefix of the empty cells of the input, and the grid in a call's loop,
\* so also when the call returns false, is the grid of the call's entry;
\* when the outermost call has returned false the grid is the input's.
C16_SearchInvariant ==
  /\ SearchRunning
       => /\ \A i \in 1..81 : \A j \in Peers[i] :
               GridAt(i) # <<".">> => GridAt(i) # GridAt(j)
          /\ \A i \in 1..81 : puzzle[i] # "." => GridAt(i) = <<puzzle[i]>>
          /\ \A i \in Empties(puzzle) : \A k \in Empties(puzzle) :
               (GridAt(i) # <<".">> /\ k < i) => GridAt(k) # <<".">>
          /\ Cardinality({i \in Empties(puzzle) : GridAt(i) # <<".">>})
               = Cardinality(PlacedFrames)
          /\ grid = EntryGrid
  /\ (op \in {"solve", "directSolve"} /\ pc \in {"returned", "done"}
        /\ IsPuzzleString(puzzle) /\ ret = False /\ ~HasDuplicateGivens(puzzle))
       => grid = stringToGrid(puzzle)

\* A nested call has tried all nine digits and is about to return false,
\* after the search has written and taken back digits.
C16_Witness ==
  /\ SearchRunning
  /\ pc = "loop"
  /\ Top.num > 9
  /\ Len(stack) > 2
  /\ placed > Len(stack)
  /\ grid = EntryGrid
  /\ GridAt(PosOf(Top.row, Top.col)) = <<".">>

====
